---------------------------- MODULE Spec2Model ----------------------------
(***************************************************************************)
(* Budgeting Dashboard (dragonstonehafiz/budgeting-analysis).              *)
(*                                                                         *)
(* Part 1: the spreadsheet rewriter, remake_xlsx_file(xlsx_path), as the   *)
(* repository documents it: the step list of the "Excel Remake Flow", the  *)
(* _parse_date / sort code of "Remake XLSX with Date Sorting", the backup  *)
(* file name pattern of "Backup Strategy".                                 *)
(* Part 2: the record store, load_df(filepath).                            *)
(* Part 3: the dashboard page: set_data, the filters and the update        *)
(* cascade of _compute_and_update, the KPI cards of _update_metrics, the   *)
(* chart functions of plots.py, the canvases of the overview.              *)
(***************************************************************************)
EXTENDS Integers, Sequences, FiniteSets, TLC

VARIABLES
    file,          \* content of purchases.xlsx on disk
    backups,       \* backup files in the same folder: timestamp -> content
    clock,         \* wall clock, in whole seconds
    st,            \* "idle" | "running" | "done" | "failed" | "backup_error"
    pc,            \* index in Steps of the next step of the running rewrite
    err,           \* exception that ended the rewrite, "none" otherwise
    ws,            \* the worksheet held in memory by the running rewrite
    data_rows,     \* local of remake_xlsx_file: the rows read from ws
    sorted_rows,   \* local of remake_xlsx_file: the rows to write back
    orig,          \* history: content of the file when the rewrite started
    log,           \* history: the steps the current rewrite has executed
    runs,          \* history: number of rewrites started
    backup_names,  \* history: timestamp of the backup of each rewrite
    saved,         \* history: content written by each completed rewrite
    ld_file,       \* load_df: the file at filepath (NoFile when missing)
    ld_result,     \* load_df: what the call returned or raised
    _data_raw,     \* dashboard: the DataFrame set_data stored
    _data,         \* dashboard: the filtered DataFrame, df_sel
    year_combo,    \* dashboard: current text of the year selector
    search_input,  \* dashboard: text of the search box at the last search
    overview_chart_combo,  \* dashboard: current text of the chart selector
    _monthly_view, \* dashboard: the data of the chart of the overview
    top_items_view, \* dashboard: the bars of the top items chart
    loaded,        \* history: the DataFrame as load_df returned it
    _cards,        \* dashboard: the values of the KPI cards
    category_pie,  \* dashboard: the slices of the category pie chart
    amount_pie,    \* dashboard: the slices of the amount distribution pie
    layout,        \* dashboard: the canvases in the layout of the overview
    deleted,       \* dashboard: the canvases the last render deleted
    connections,   \* dashboard: slots connected to year_combo's signal
    updates,       \* history: runs of _compute_and_update in the last
                   \* handler that ran it
    search_read,   \* history: the search text _compute_and_update read last
    set_data_calls \* history: number of calls of set_data

rw_vars == <<file, backups, clock, st, pc, err, ws, data_rows, sorted_rows,
             orig, log, runs, backup_names, saved>>
ld_vars == <<ld_file, ld_result>>
db_vars == <<_data_raw, _data, year_combo, search_input, overview_chart_combo,
             _monthly_view, top_items_view, loaded, _cards, category_pie,
             amount_pie, layout, deleted, connections, updates, search_read,
             set_data_calls>>
vars == <<rw_vars, ld_vars, db_vars>>

---------------------------------------------------------------------------
(* Bounds of the model. *)

MaxRows == 2       \* data rows in the worksheet
MaxDay == 2        \* calendar days 1..MaxDay
MaxClock == 1      \* seconds the wall clock may advance
MaxRuns == 2       \* rewrites started in one behaviour
MaxLoadRows == 2   \* data rows of the file load_df reads
MaxCost == 1       \* costs 0..MaxCost
MaxRecs == 3       \* records of the DataFrame the dashboard holds
MaxTopN == 2       \* top_n of a call of top_items_bar_chart
MaxSetData == 2    \* calls of set_data in one behaviour

Days == 1..MaxDay
\* Time of day of a date-time value: 0 is midnight, 1 is some later time.
TimesOfDay == {0, 1}


---------------------------------------------------------------------------
(* The calendar. A day is counted from 2024-12-30: day 1 is 2024-12-31,    *)
(* day 2 is 2025-01-01. pandas reads year, month and day from a datetime   *)
(* (Date.dt.year, .dt.month, .dt.day, .dt.month_name()).                   *)

IsLeap(y) == (y % 4 = 0 /\ y % 100 /= 0) \/ y % 400 = 0

DaysInMonth(y, m) ==
    IF m = 2 THEN (IF IsLeap(y) THEN 29 ELSE 28)
    ELSE IF m \in {4, 6, 9, 11} THEN 30 ELSE 31

RECURSIVE Civil(_, _, _)
\* The date that is the n-th day counted from the first of month m of y.
Civil(y, m, n) ==
    IF n <= DaysInMonth(y, m) THEN [year |-> y, month |-> m, day |-> n]
    ELSE IF m = 12 THEN Civil(y + 1, 1, n - DaysInMonth(y, m))
         ELSE Civil(y, m + 1, n - DaysInMonth(y, m))

\* Year, month and day of month of a day.
DateOfDay(n) == Civil(2024, 12, n + 30)

RECURSIVE DaysBefore(_, _)
\* Days from 2024-12-01 to the first of month m of year y, negative for a
\* month before.
DaysBefore(y, m) ==
    IF y = 2024 /\ m = 12 THEN 0
    ELSE IF y < 2025
    THEN (IF m = 12 THEN DaysBefore(y + 1, 1) ELSE DaysBefore(y, m + 1))
            - DaysInMonth(y, m)
    ELSE IF m = 1 THEN DaysBefore(y - 1, 12) + DaysInMonth(y - 1, 12)
         ELSE DaysBefore(y, m - 1) + DaysInMonth(y, m - 1)

\* The day that is the date y-m-d.
DayOfDate(y, m, d) == DaysBefore(y, m) + d - 30

\* Date.dt.month_name()
month_name(m) ==
    <<"January", "February", "March", "April", "May", "June", "July",
      "August", "September", "October", "November", "December">>[m]

---------------------------------------------------------------------------
(* Cell values of the Date column (column D).                              *)
(*   datetime : a native date-time cell (datetime.datetime)                *)
(*   date     : a native date cell (datetime.date)                         *)
(*   text     : ISO text, "YYYY-MM-DD" (tod = 0) or "YYYY-MM-DDTHH:MM:SS"  *)
(*   bad      : anything else: non ISO text, an empty cell                 *)

DateTimeCells == [kind : {"datetime"}, day : Days, tod : TimesOfDay]
DateOnlyCells == [kind : {"date"}, day : Days, tod : {0}]
IsoTextCells  == [kind : {"text"}, day : Days, tod : TimesOfDay]
BadCells      == [kind : {"bad"}, day : {0}, tod : {0}]
DateCells == DateTimeCells \cup DateOnlyCells \cup IsoTextCells \cup BadCells

\* What _parse_date gives instead of a datetime object: the exception it
\* raises, and Python's None.
ValueError == [kind |-> "ValueError", day |-> 0, tod |-> 0]
None == [kind |-> "None", day |-> 0, tod |-> 0]

\* datetime.datetime(val.year, val.month, val.day) for a native value,
\* datetime.datetime.fromisoformat(str(val)) otherwise, which keeps the time
\* of day of the text and raises ValueError for text that is not ISO.
_parse_date(val) ==
    IF val.kind \in {"datetime", "date"}
    THEN [kind |-> "datetime", day |-> val.day, tod |-> 0]
    ELSE IF val.kind = "text"
         THEN [kind |-> "datetime", day |-> val.day, tod |-> val.tod]
         ELSE ValueError

\* Order of datetime objects.
DtLess(a, b) == a.day < b.day \/ (a.day = b.day /\ a.tod < b.tod)

\* A data row: Item names the row, Date is its column D cell.
Rows == [Item : 1..MaxRows, Date : DateCells]

\* row_copy[date_col_index] = parsed
row_copy(row, parsed) == [row EXCEPT !.Date = parsed]

\* The loop over data_rows raises when _parse_date raises.
SortRaises(rows) ==
    \E i \in 1..Len(rows) : _parse_date(rows[i].Date) = ValueError

\* "if parsed:" : a datetime object is truthy, None is not.
Truthy(parsed) == parsed /= None

RECURSIVE Sortable(_)
\* sortable: the (parsed, row_copy) pairs of the rows whose parsed is truthy
Sortable(rows) ==
    IF rows = <<>> THEN <<>>
    ELSE LET parsed == _parse_date(Head(rows).Date)
         IN  IF Truthy(parsed)
             THEN <<[key |-> parsed, row |-> row_copy(Head(rows), parsed)]>>
                  \o Sortable(Tail(rows))
             ELSE Sortable(Tail(rows))

RECURSIVE Nonsortable(_)
\* nonsortable: the rows whose parsed is not truthy, in their order
Nonsortable(rows) ==
    IF rows = <<>> THEN <<>>
    ELSE IF Truthy(_parse_date(Head(rows).Date))
         THEN Nonsortable(Tail(rows))
         ELSE <<Head(rows)>> \o Nonsortable(Tail(rows))

\* The comparison list.sort makes between an element it inserts and one
\* already placed: the new one goes after every element not greater.
GoesAfter(new, placed) == ~ DtLess(new.key, placed.key)

\* An element replaces the placed element of the same key, as in a dict
\* keyed by the parsed date.
Insert_one_per_key(s, x) ==
    IF \E i \in 1..Len(s) : s[i].key = x.key
    THEN [i \in 1..Len(s) |-> IF s[i].key = x.key THEN x ELSE s[i]]
    ELSE LET before(e) == DtLess(e.key, x.key)
             after(e) == DtLess(x.key, e.key)
         IN  SelectSeq(s, before) \o <<x>> \o SelectSeq(s, after)

RECURSIVE Insert(_, _)
\* s is sorted; x came after every element of s in the input.
Insert(s, x) ==
    IF s = <<>> THEN <<x>>
    ELSE IF GoesAfter(x, s[Len(s)])
         THEN Append(s, x)
         ELSE Append(Insert(SubSeq(s, 1, Len(s) - 1), x), s[Len(s)])

RECURSIVE ListSort(_)
\* sortable.sort(key=lambda x: x[0]) : Python's stable sort
ListSort(s) ==
    IF s = <<>> THEN <<>>
    ELSE Insert(ListSort(SubSeq(s, 1, Len(s) - 1)), s[Len(s)])

\* sorted_rows = [r for _, r in sortable] + nonsortable
SortedRows(rows) ==
    LET sorted == ListSort(Sortable(rows))
    IN  [i \in 1..Len(sorted) |-> sorted[i].row] \o Nonsortable(rows)

---------------------------------------------------------------------------
(* The workbook: the data rows of its first worksheet (row 2 and below),   *)
(* whether row 1 holds the headers A-H, the dropdown of the Category       *)
(* column (its first and last row and its list of values), the conditional *)
(* formatting and the row formatting.                                      *)

\* CATEGORIES: the list of 11 category names.
CATEGORIES ==
    <<"Food & Beverages", "Books & Literature", "Gaming",
      "Digital Subscriptions", "Movies & Media", "Music & Audio",
      "Electronics & Accessories", "Clothing & Apparel",
      "Health & Personal Care", "Collectibles", "Miscellaneous">>

\* FILL_MAP: dict mapping the categories to a PatternFill,
\* PatternFill(fgColor="abcdef", fill_type="solid").
FILL_MAP ==
    [name \in {CATEGORIES[k] : k \in 1..Len(CATEGORIES)} |->
        [fill_type |-> "solid",
         fgColor |->
            IF name \in {"Food & Beverages", "Clothing & Apparel",
                         "Miscellaneous"} THEN "D9D9D9"
            ELSE IF name = "Books & Literature" THEN "e9a9ff"
            ELSE IF name = "Gaming" THEN "bbe33d"
            ELSE IF name = "Digital Subscriptions" THEN "fbffa9"
            ELSE IF name = "Movies & Media" THEN "a05eff"
            ELSE IF name = "Music & Audio" THEN "ffa9f2"
            ELSE IF name = "Electronics & Accessories" THEN "729fcf"
            ELSE IF name = "Health & Personal Care" THEN "a9ffc4"
            ELSE "ffc85d"]]

\* A colour of category_colors: '#' and the hex digits.
Hex(digits) == [hash |-> "#", hex |-> digits]

\* category_colors after a category was added to xlsx_formats.py only.
category_colors_one_behind ==
    ("Food & Beverages" :> Hex("D9D9D9")) @@
    ("Books & Literature" :> Hex("e9a9ff")) @@
    ("Gaming" :> Hex("bbe33d")) @@
    ("Digital Subscriptions" :> Hex("fbffa9")) @@
    ("Movies & Media" :> Hex("a05eff")) @@
    ("Music & Audio" :> Hex("ffa9f2")) @@
    ("Electronics & Accessories" :> Hex("729fcf")) @@
    ("Clothing & Apparel" :> Hex("D9D9D9")) @@
    ("Health & Personal Care" :> Hex("a9ffc4")) @@
    ("Miscellaneous" :> Hex("D9D9D9"))

\* category_colors: the dict of category_colors.py, 11 categories -> hex
\* colours.
category_colors ==
    ("Food & Beverages" :> Hex("D9D9D9")) @@
    ("Books & Literature" :> Hex("e9a9ff")) @@
    ("Gaming" :> Hex("bbe33d")) @@
    ("Digital Subscriptions" :> Hex("fbffa9")) @@
    ("Movies & Media" :> Hex("a05eff")) @@
    ("Music & Audio" :> Hex("ffa9f2")) @@
    ("Electronics & Accessories" :> Hex("729fcf")) @@
    ("Clothing & Apparel" :> Hex("D9D9D9")) @@
    ("Health & Personal Care" :> Hex("a9ffc4")) @@
    ("Collectibles" :> Hex("ffc85d")) @@
    ("Miscellaneous" :> Hex("D9D9D9"))

\* get_category_color(category): the hex colour, the colour of
\* 'Miscellaneous' for None and for a name without a colour.
get_category_color(category) ==
    IF category \in DOMAIN category_colors THEN category_colors[category]
    ELSE category_colors["Miscellaneous"]

\* A worksheet without a data validation on the Category column.
NoValidation == [first |-> 0, last |-> 0, values |-> <<>>]

SheetOf(rows) ==
    [rows |-> rows, header |-> FALSE, dv |-> NoValidation, cf |-> FALSE,
     formatted |-> FALSE]

\* Sequences of at most n rows whose Items are 1, 2, ... in order.
RowSeqs(n) ==
    UNION {{s \in [1..k -> Rows] : \A i \in 1..k : s[i].Item = i} : k \in 0..n}

\* ws.max_row: the header row and the data rows.
max_row(sheet) == 1 + Len(sheet.rows)

\* Variants of the step list with a step out of place.
Steps_backup_after_init ==
    <<"load_workbook", "init_columns", "backup", "read_rows", "sort_rows",
      "clear_rows", "write_rows", "create_category_dv", "create_category_cf",
      "format_rows", "save">>
Steps_backup_after_write ==
    <<"load_workbook", "init_columns", "read_rows", "sort_rows",
      "clear_rows", "write_rows", "backup", "create_category_dv",
      "create_category_cf", "format_rows", "save">>
Steps_save_before_sort ==
    <<"load_workbook", "backup", "init_columns", "read_rows", "save",
      "sort_rows", "clear_rows", "write_rows", "create_category_dv",
      "create_category_cf", "format_rows">>
Steps_validation_last ==
    <<"load_workbook", "backup", "init_columns", "read_rows", "sort_rows",
      "clear_rows", "write_rows", "create_category_cf", "format_rows",
      "create_category_dv", "save">>

\* The steps of remake_xlsx_file, in program order.
Steps ==
    <<"load_workbook", "backup", "init_columns", "read_rows", "sort_rows",
      "clear_rows", "write_rows", "create_category_dv", "create_category_cf",
      "format_rows", "save">>

\* purchases_backup_YYYY-MM-DD_HH-MM-SS.xlsx : the name is the time of the
\* backup to the second.
BackupName(now) == now

\* The copy writes the file under the name, replacing a file of that name.
CopyTo(dir, name, content) ==
    [n \in DOMAIN dir \cup {name} |-> IF n = name THEN content ELSE dir[n]]

At(step) == st = "running" /\ Steps[pc] = step

\* The step returns: the next step, or the end of remake_xlsx_file.
Advance(step) ==
    /\ log' = Append(log, step)
    /\ IF pc = Len(Steps)
       THEN st' = "done" /\ pc' = pc
       ELSE st' = st /\ pc' = pc + 1

---------------------------------------------------------------------------
(* remake_xlsx_file(xlsx_path), one action per step of the flow. *)

\* A click is handled whatever the handler of the click before is doing.
handler_returned_or_not == TRUE

\* _on_remake_clicked() calls remake_xlsx_file(purchases_path) itself: the
\* next click is handled when it has returned to the event loop.
handler_returned == st = "idle"

\* The user clicks "Remake purchases.xlsx" and confirms the dialog:
\* remake_xlsx_file(purchases_path) is called.
on_remake_clicked ==
    /\ handler_returned
    /\ runs < MaxRuns
    /\ st' = "running"
    /\ pc' = 1
    /\ err' = "none"
    /\ orig' = file
    /\ log' = <<>>
    /\ runs' = runs + 1
    /\ ws' = SheetOf(<<>>)
    /\ data_rows' = <<>>
    /\ sorted_rows' = <<>>
    /\ UNCHANGED <<file, backups, clock, backup_names, saved, ld_vars, db_vars>>

load_workbook ==
    /\ At("load_workbook")
    /\ ws' = file
    /\ Advance("load_workbook")
    /\ UNCHANGED <<file, backups, clock, err, data_rows, sorted_rows, orig,
                   runs, backup_names, saved, ld_vars, db_vars>>

\* Timestamped copy of the file, in the same folder.
backup ==
    /\ At("backup")
    /\ backups' = CopyTo(backups, BackupName(clock), file)
    /\ backup_names' = Append(backup_names, BackupName(clock))
    /\ Advance("backup")
    /\ UNCHANGED <<file, clock, err, ws, data_rows, sorted_rows, orig, runs,
                   saved, ld_vars, db_vars>>

\* The copy fails: BackupError, the rewrite is over.
backup_fails ==
    /\ At("backup")
    /\ st' = "backup_error"
    /\ err' = "BackupError"
    /\ UNCHANGED <<file, backups, clock, pc, ws, data_rows, sorted_rows, orig,
                   log, runs, backup_names, saved, ld_vars, db_vars>>

\* xlsx_init_column(ws, col_letter, text, width) for the columns A-H
init_columns ==
    /\ At("init_columns")
    /\ ws' = [ws EXCEPT !.header = TRUE]
    /\ Advance("init_columns")
    /\ UNCHANGED <<file, backups, clock, err, data_rows, sorted_rows, orig,
                   runs, backup_names, saved, ld_vars, db_vars>>

read_rows ==
    /\ At("read_rows")
    /\ data_rows' = ws.rows
    /\ Advance("read_rows")
    /\ UNCHANGED <<file, backups, clock, err, ws, sorted_rows, orig, runs,
                   backup_names, saved, ld_vars, db_vars>>

\* The sorting code; a ValueError of _parse_date leaves remake_xlsx_file.
sort_rows ==
    /\ At("sort_rows")
    /\ IF SortRaises(data_rows)
       THEN /\ st' = "failed"
            /\ err' = "ValueError"
            /\ UNCHANGED <<pc, log, sorted_rows>>
       ELSE /\ sorted_rows' = SortedRows(data_rows)
            /\ err' = err
            /\ Advance("sort_rows")
    /\ UNCHANGED <<file, backups, clock, ws, data_rows, orig, runs,
                   backup_names, saved, ld_vars, db_vars>>

clear_rows ==
    /\ At("clear_rows")
    /\ ws' = [ws EXCEPT !.rows = <<>>]
    /\ Advance("clear_rows")
    /\ UNCHANGED <<file, backups, clock, err, data_rows, sorted_rows, orig,
                   runs, backup_names, saved, ld_vars, db_vars>>

write_rows ==
    /\ At("write_rows")
    /\ ws' = [ws EXCEPT !.rows = sorted_rows]
    /\ Advance("write_rows")
    /\ UNCHANGED <<file, backups, clock, err, data_rows, sorted_rows, orig,
                   runs, backup_names, saved, ld_vars, db_vars>>

\* A dropdown that ends at the last row of the sheet.
category_dv_to_max_row(sheet) ==
    [first |-> 2, last |-> max_row(sheet), values |-> CATEGORIES]

\* DataValidation with the predefined categories (allow_blank=True), for
\* rows 2 through max_row*2.
category_dv(sheet) ==
    [first |-> 2, last |-> max_row(sheet) * 2, values |-> CATEGORIES]

\* xlsx_create_category_dv(ws, category_col): dropdown on column B.
xlsx_create_category_dv ==
    /\ At("create_category_dv")
    /\ ws' = [ws EXCEPT !.dv = category_dv(ws)]
    /\ Advance("create_category_dv")
    /\ UNCHANGED <<file, backups, clock, err, data_rows, sorted_rows, orig,
                   runs, backup_names, saved, ld_vars, db_vars>>

xlsx_create_category_cf ==
    /\ At("create_category_cf")
    /\ ws' = [ws EXCEPT !.cf = TRUE]
    /\ Advance("create_category_cf")
    /\ UNCHANGED <<file, backups, clock, err, data_rows, sorted_rows, orig,
                   runs, backup_names, saved, ld_vars, db_vars>>

xlsx_format_rows ==
    /\ At("format_rows")
    /\ ws' = [ws EXCEPT !.formatted = TRUE]
    /\ Advance("format_rows")
    /\ UNCHANGED <<file, backups, clock, err, data_rows, sorted_rows, orig,
                   runs, backup_names, saved, ld_vars, db_vars>>

\* Save workbook: the file at xlsx_path is overwritten.
save ==
    /\ At("save")
    /\ file' = ws
    /\ saved' = Append(saved, ws)
    /\ Advance("save")
    /\ UNCHANGED <<backups, clock, err, ws, data_rows, sorted_rows, orig,
                   runs, backup_names, ld_vars, db_vars>>

\* The phases between the backup and the save.
LaterPhases ==
    {"init_columns", "read_rows", "sort_rows", "clear_rows", "write_rows",
     "create_category_dv", "create_category_cf", "format_rows"}

\* A later phase fails: RewriteError, propagated to the caller.
rewrite_fails ==
    /\ st = "running"
    /\ Steps[pc] \in LaterPhases
    /\ st' = "failed"
    /\ err' = "RewriteError"
    /\ UNCHANGED <<file, backups, clock, pc, ws, data_rows, sorted_rows, orig,
                   log, runs, backup_names, saved, ld_vars, db_vars>>

\* remake_xlsx_file returns or raises to _on_remake_clicked: its locals
\* are gone, the dashboard is back in its event loop.
returned ==
    /\ st \in {"done", "failed", "backup_error"}
    /\ st' = "idle"
    /\ pc' = 1
    /\ err' = "none"
    /\ ws' = SheetOf(<<>>)
    /\ data_rows' = <<>>
    /\ sorted_rows' = <<>>
    /\ orig' = file
    /\ log' = <<>>
    /\ UNCHANGED <<file, backups, clock, runs, backup_names, saved, ld_vars, db_vars>>

\* A second passes. The clock is read by the backup step only, so the
\* seconds that pass during a rewrite are counted before it starts.
Tick ==
    /\ st = "idle"
    /\ clock < MaxClock
    /\ clock' = clock + 1
    /\ UNCHANGED <<file, backups, st, pc, err, ws, data_rows, sorted_rows,
                   orig, log, runs, backup_names, saved, ld_vars, db_vars>>

\* The dashboard page has no data.
NoDashboard ==
    /\ _data_raw = <<>>
    /\ _data = <<>>
    /\ year_combo = "Last 12 months"
    /\ search_input = <<>>
    /\ overview_chart_combo = "Monthly spending trend"
    /\ _monthly_view = <<>>
    /\ top_items_view = [top_n |-> 0, bars |-> <<>>]
    /\ loaded = <<>>
    /\ _cards = <<>>
    /\ category_pie = [top_n |-> 0, slices |-> <<>>]
    /\ amount_pie = <<>>
    /\ layout = <<>>
    /\ deleted = <<>>
    /\ connections = 0
    /\ updates = 0
    /\ search_read = <<>>
    /\ set_data_calls = 0

---------------------------------------------------------------------------
(* load_df(filepath): Excel file -> DataFrame. *)

RequiredColumns ==
    {"Item", "Category", "Cost", "Date", "Notes", "Month", "MonthNum", "Year"}

\* Cells of the Cost column: a number, text with a thousands comma that
\* reads as a number, anything else.
CostCells ==
    [kind : {"number"}, val : 0..MaxCost]
        \cup [kind : {"comma_text"}, val : {MaxCost}]
        \cup [kind : {"bad"}, val : {0}]

\* Cells of the Date column of the file load_df reads.
LoadDateCells == {c \in DateCells : c.kind /= "date" /\ c.tod = 0}

\* Cells of the columns Month, MonthNum and Year: a missing cell has kind
\* "missing"; a Year cell holds a number or text.
MissingMonth == [kind |-> "missing", val |-> ""]
MissingMonthNum == [kind |-> "missing", val |-> 0]
MissingYear == [kind |-> "missing", val |-> 0]
MonthCells == {MissingMonth, [kind |-> "text", val |-> "January"]}
MonthNumCells == {MissingMonthNum, [kind |-> "number", val |-> 12]}
YearCells ==
    {MissingYear, [kind |-> "number", val |-> 2025],
     [kind |-> "text", val |-> 2024]}

\* The rows of a file whose Month, MonthNum and Year cells are not filled in.
LoadRows ==
    [Item : 1..MaxLoadRows, Date : LoadDateCells, Cost : CostCells,
     Month : {MissingMonth}, MonthNum : {MissingMonthNum},
     Year : {MissingYear}]

\* The rows of a file with a datetime Date, a numeric Cost and any Month,
\* MonthNum and Year cells.
DerivedRows ==
    [Item : 1..MaxLoadRows, Date : {c \in LoadDateCells : c.kind = "datetime"},
     Cost : {[kind |-> "number", val |-> 0]},
     Month : MonthCells, MonthNum : MonthNumCells, Year : YearCells]

LoadRowSeqs(n) ==
    UNION {{s \in [1..k -> LoadRows] : \A i \in 1..k : s[i].Item = i} : k \in 0..n}

\* Not a Time, the missing value of a datetime column.
NaT == [kind |-> "NaT", day |-> 0, tod |-> 0]

\* pd.to_datetime(df[date_col], errors='coerce')
to_datetime(cell) ==
    IF cell.kind = "bad" THEN NaT
    ELSE [kind |-> "datetime", day |-> cell.day, tod |-> cell.tod]

\* pd.to_numeric(df[cost_col], errors='coerce').fillna(0.0), commas handled
to_numeric(cell) == IF cell.kind = "bad" THEN 0 ELSE cell.val

\* dropna that drops nothing.
dropna_keeps_all(rows) == rows

RECURSIVE dropna(_)
\* df.dropna(subset=[date_col])
dropna(rows) ==
    IF rows = <<>> THEN <<>>
    ELSE IF Head(rows).Date = NaT
         THEN dropna(Tail(rows))
         ELSE <<Head(rows)>> \o dropna(Tail(rows))

\* Year -> string: the text of a number, the text itself.
astype_str(cell) ==
    IF cell.kind = "number" THEN [kind |-> "text", val |-> cell.val] ELSE cell

\* A cell left as it is where a missing cell is filled.
keep_cell(cell, derived) == cell

\* A Month, MonthNum or Year cell is filled from the Date if missing.
fill_if_missing(cell, derived) ==
    IF cell.kind = "missing" THEN derived ELSE cell

\* Month, MonthNum and Year of a row whose Date is a datetime.
fill_derived(row) ==
    LET d == DateOfDay(row.Date.day)
    IN  [row EXCEPT
            !.Month = fill_if_missing(@, [kind |-> "text", val |-> month_name(d.month)]),
            !.MonthNum = fill_if_missing(@, [kind |-> "number", val |-> d.month]),
            !.Year = astype_str(fill_if_missing(@, [kind |-> "number", val |-> d.year]))]

\* The type coercion of the loaded rows.
Coerce(rows) ==
    LET dated == [i \in 1..Len(rows) |->
                     [rows[i] EXCEPT !.Date = to_datetime(rows[i].Date)]]
        kept == dropna(dated)
    IN  [i \in 1..Len(kept) |->
            fill_derived([kept[i] EXCEPT !.Cost = to_numeric(kept[i].Cost)])]

Raised(exception) == [status |-> exception, df |-> <<>>]

\* load_df that returns an empty DataFrame where load_df raises.
load_df_no_errors(f) ==
    IF ~ f.exists \/ ~ (RequiredColumns \subseteq f.columns)
    THEN [status |-> "ok", df |-> <<>>]
    ELSE [status |-> "ok", df |-> Coerce(f.rows)]

\* load_df(filepath)
load_df(f) ==
    IF ~ f.exists THEN Raised("FileNotFoundError")
    ELSE IF ~ (RequiredColumns \subseteq f.columns) THEN Raised("ValueError")
    ELSE [status |-> "ok", df |-> Coerce(f.rows)]

LdIdle == [status |-> "not_called", df |-> <<>>]
LdNone == [exists |-> FALSE, columns |-> {}, rows |-> <<>>]

\* The files load_df may find: none, or a workbook with all the required
\* columns or with one of them missing, and its rows.
LoadInputs ==
    {LdNone} \cup
    [exists : {TRUE},
     columns : {RequiredColumns} \cup {RequiredColumns \ {c} : c \in RequiredColumns},
     rows : LoadRowSeqs(MaxLoadRows)]

\* The dashboard calls load_df(filepath).
call_load_df ==
    /\ ld_result.status = "not_called"
    /\ ld_result' = load_df(ld_file)
    /\ UNCHANGED <<ld_file, rw_vars, db_vars>>

LoadInit ==
    /\ ld_file \in LoadInputs
    /\ ld_result = LdIdle
    /\ file = SheetOf(<<>>)
    /\ backups = <<>>
    /\ clock = 0
    /\ st = "idle"
    /\ pc = 1
    /\ err = "none"
    /\ ws = SheetOf(<<>>)
    /\ data_rows = <<>>
    /\ sorted_rows = <<>>
    /\ orig = file
    /\ log = <<>>
    /\ runs = 0
    /\ backup_names = <<>>
    /\ saved = <<>>
    /\ NoDashboard

LoadNext == call_load_df

LoadSpec == LoadInit /\ [][LoadNext]_vars

\* The same call on a file with all the required columns whose rows have
\* any Month, MonthNum and Year cells.
DerivedRowSeqs(n) ==
    UNION {{s \in [1..k -> DerivedRows] : \A i \in 1..k : s[i].Item = i} : k \in 0..n}

DerivedInputs ==
    [exists : {TRUE}, columns : {RequiredColumns},
     rows : DerivedRowSeqs(MaxLoadRows)]

DerivedInit ==
    /\ ld_file \in DerivedInputs
    /\ ld_result = LdIdle
    /\ file = SheetOf(<<>>)
    /\ backups = <<>>
    /\ clock = 0
    /\ st = "idle"
    /\ pc = 1
    /\ err = "none"
    /\ ws = SheetOf(<<>>)
    /\ data_rows = <<>>
    /\ sorted_rows = <<>>
    /\ orig = file
    /\ log = <<>>
    /\ runs = 0
    /\ backup_names = <<>>
    /\ saved = <<>>
    /\ NoDashboard

DerivedSpec == DerivedInit /\ [][LoadNext]_vars

---------------------------------------------------------------------------
(* The dashboard: the DataFrame load_df returned (_data_raw), the year and  *)
(* search filters of _compute_and_update, the chart functions of plots.py. *)

\* Text is a sequence of characters.
Lower(c) == IF c = "A" THEN "a" ELSE IF c = "B" THEN "b" ELSE c

\* str.lower()
lower(text) == [i \in 1..Len(text) |-> Lower(text[i])]

\* The order of characters.
CharCode(c) ==
    IF c = " " THEN 32 ELSE IF c = "A" THEN 65 ELSE IF c = "B" THEN 66
    ELSE IF c = "a" THEN 97 ELSE 98

RECURSIVE TextLess(_, _)
\* a < b for Python strings.
TextLess(a, b) ==
    IF b = <<>> THEN FALSE
    ELSE IF a = <<>> THEN TRUE
    ELSE IF Head(a) /= Head(b) THEN CharCode(Head(a)) < CharCode(Head(b))
    ELSE TextLess(Tail(a), Tail(b))

\* sub in text
IsSubstring(sub, text) ==
    \E k \in 0..(Len(text) - Len(sub)) : SubSeq(text, k + 1, k + Len(sub)) = sub

RECURSIVE lstrip(_)
lstrip(text) ==
    IF text /= <<>> /\ Head(text) = " " THEN lstrip(Tail(text)) ELSE text

RECURSIVE rstrip(_)
rstrip(text) ==
    IF text /= <<>> /\ text[Len(text)] = " "
    THEN rstrip(SubSeq(text, 1, Len(text) - 1)) ELSE text

\* The search text with the whitespace around it removed.
strip(text) == lstrip(rstrip(text))

\* str(year) of the years of the calendar.
str_year(y) ==
    IF y = 2024 THEN "2024" ELSE IF y = 2025 THEN "2025"
    ELSE IF y = 2026 THEN "2026" ELSE "2027"

\* A record of the DataFrame: Date is the day of a datetime at midnight,
\* Year the text of its year; its Category is the fallback category.
Record(item, notes, cost, day) ==
    [Item |-> item, Category |-> "Miscellaneous", Notes |-> notes,
     Cost |-> cost, Date |-> day, Year |-> str_year(DateOfDay(day).year)]

\* A record of a category, without notes.
Purchase(item, category, cost, day) ==
    [Item |-> item, Category |-> category, Notes |-> <<>>,
     Cost |-> cost, Date |-> day, Year |-> str_year(DateOfDay(day).year)]

RECURSIVE max_date(_)
\* df['Date'].max()
max_date(df) ==
    IF Len(df) = 1 THEN df[1].Date
    ELSE LET m == max_date(Tail(df))
         IN  IF df[1].Date > m THEN df[1].Date ELSE m

RECURSIVE min_date(_)
\* df['Date'].min()
min_date(df) ==
    IF Len(df) = 1 THEN df[1].Date
    ELSE LET m == min_date(Tail(df))
         IN  IF df[1].Date < m THEN df[1].Date ELSE m

\* The months of the calendar, counted: year * 12 + month - 1.
month_index(day) == DateOfDay(day).year * 12 + DateOfDay(day).month - 1

\* The first day of the counted month.
month_start(mi) == DayOfDate(mi \div 12, (mi % 12) + 1, 1)

\* The start of a window of the 365 days that end with the latest date.
last12_start_365_days(latest) == latest - 364

\* The start of "Last 12 months": the first day of the month 11 months
\* before the month of the latest date.
last12_start(latest) == month_start(month_index(latest) - 11)

\* The end of "Last 12 months": the last day of the month of the latest date.
last12_end(latest) == month_start(month_index(latest) + 1) - 1

\* A year filter that takes "All" for a year.
year_filter_all_as_year(df, text) ==
    LET of_year(r) == r.Year = text
    IN  SelectSeq(df, of_year)

\* Apply year filter: 'Last 12 months', 'All', or a year.
year_filter(df, text) ==
    IF text = "All" THEN df
    ELSE IF text = "Last 12 months"
    THEN IF df = <<>> THEN df
         ELSE LET in_window(r) ==
                      /\ r.Date >= last12_start(max_date(df))
                      /\ r.Date <= last12_end(max_date(df))
              IN  SelectSeq(df, in_window)
    ELSE LET of_year(r) == r.Year = text
         IN  SelectSeq(df, of_year)

\* str.contains that compares the characters as they are.
contains_case_sensitive(text, sub) == IsSubstring(sub, text)

\* Series.str.contains(sub, case=False)
contains(text, sub) == IsSubstring(lower(sub), lower(text))

\* Apply search filter: Item or Notes contains the text; no text, no filter.
search_filter(df, text) ==
    IF strip(text) = <<>> THEN df
    ELSE LET matches(r) ==
                 contains(r.Item, strip(text)) \/ contains(r.Notes, strip(text))
         IN  SelectSeq(df, matches)

\* The search filter applied to the whole DataFrame instead.
filtered_search_only(raw, year, search) == search_filter(raw, search)

\* Apply year filter to _data_raw, apply search filter to the filtered
\* DataFrame.
filtered(raw, year, search) == search_filter(year_filter(raw, year), search)

---------------------------------------------------------------------------
(* The chart functions of plots.py, as far as the data they plot. *)

RECURSIVE sum_cost(_)
\* df['Cost'].sum()
sum_cost(df) == IF df = <<>> THEN 0 ELSE Head(df).Cost + sum_cost(Tail(df))

RECURSIVE period_total(_, _)
\* The sum of the costs of the rows of the period.
period_total(keyed, q) ==
    IF keyed = <<>> THEN 0
    ELSE (IF Head(keyed).period = q THEN Head(keyed).cost ELSE 0)
            + period_total(Tail(keyed), q)

first_period(keyed) ==
    LET periods == {keyed[i].period : i \in 1..Len(keyed)}
    IN  CHOOSE q \in periods : \A o \in periods : q <= o

last_period(keyed) ==
    LET periods == {keyed[i].period : i \in 1..Len(keyed)}
    IN  CHOOSE q \in periods : \A o \in periods : q >= o

\* Series.groupby(period).sum(): one entry for each period that has a row,
\* in ascending order.
groupby_period_sum(keyed) ==
    IF keyed = <<>> THEN <<>>
    ELSE LET has_row(q) == \E i \in 1..Len(keyed) : keyed[i].period = q
             all == [k \in 1..(last_period(keyed) - first_period(keyed) + 1)
                        |-> first_period(keyed) + k - 1]
             with_rows == SelectSeq(all, has_row)
         IN  [k \in 1..Len(with_rows) |->
                 [period |-> with_rows[k],
                  total |-> period_total(keyed, with_rows[k])]]

\* Series.resample(freq).sum(): one bin for every period from the first
\* row's to the last row's, the sum of the bin's rows in it, 0 in a bin
\* without rows.
resample_sum(keyed) ==
    IF keyed = <<>> THEN <<>>
    ELSE [k \in 1..(last_period(keyed) - first_period(keyed) + 1) |->
             [period |-> first_period(keyed) + k - 1,
              total |-> period_total(keyed, first_period(keyed) + k - 1)]]

\* monthly_trend_figure(df, title): the monthly totals,
\* df.set_index('Date')['Cost'].resample('MS').sum()
monthly_trend_figure(df) ==
    resample_sum([i \in 1..Len(df) |->
                     [period |-> month_index(df[i].Date), cost |-> df[i].Cost]])

\* rolling_average_figure(df, window=3, title)
window == 3

\* The least number of entries in a window that gives a mean.
min_periods == 1

NaN == [num |-> 0, den |-> 0]

\* The sum of the entry and of the entries before and after it.
window_sum_centered(x, i) ==
    x[i].total + (IF i > 1 THEN x[i - 1].total ELSE 0)
               + (IF i < Len(x) THEN x[i + 1].total ELSE 0)

RECURSIVE window_sum(_, _)
\* The sum of the window that ends at entry i: the sum of the window before
\* it with entry i added and the entry that left the window removed.
window_sum(x, i) ==
    IF i = 0 THEN 0
    ELSE window_sum(x, i - 1) + x[i].total
            - (IF i > window THEN x[i - window].total ELSE 0)

window_count(x, i) == IF i < window THEN i ELSE window

\* Series.rolling(window, min_periods).mean(): the mean as a fraction.
rolling_mean(x) ==
    [i \in 1..Len(x) |->
        [period |-> x[i].period,
         mean |-> IF window_count(x, i) < min_periods THEN NaN
                  ELSE [num |-> window_sum(x, i), den |-> window_count(x, i)]]]

rolling_average_figure(df) == rolling_mean(monthly_trend_figure(df))

RECURSIVE cumsum(_, _)
\* Series.cumsum(): the running total, carried into the next entry.
cumsum(x, carried) ==
    IF x = <<>> THEN <<>>
    ELSE <<[period |-> Head(x).period, total |-> carried + Head(x).total]>>
            \o cumsum(Tail(x), carried + Head(x).total)

\* The totals of the days that have a row.
daily_totals_of_spending_days(df) ==
    groupby_period_sum([i \in 1..Len(df) |->
                           [period |-> df[i].Date, cost |-> df[i].Cost]])

\* The daily totals, all days included (even with $0 spending).
daily_totals(df) ==
    resample_sum([i \in 1..Len(df) |->
                     [period |-> df[i].Date, cost |-> df[i].Cost]])

\* cumulative_spending_figure(df, title): day-by-day running total.
cumulative_spending_figure(df) == cumsum(daily_totals(df), 0)

\* The group of a new item is put after the groups there are.
group_insert_unsorted(groups, r) ==
    IF \E k \in 1..Len(groups) : groups[k].Item = r.Item
    THEN [k \in 1..Len(groups) |->
             IF groups[k].Item = r.Item
             THEN [Item |-> r.Item, total |-> groups[k].total + r.Cost]
             ELSE groups[k]]
    ELSE Append(groups, [Item |-> r.Item, total |-> r.Cost])

\* The row is added to the group of its item; the groups are kept in
\* ascending order of the item (groupby sorts the group keys).
group_insert(groups, r) ==
    IF \E k \in 1..Len(groups) : groups[k].Item = r.Item
    THEN [k \in 1..Len(groups) |->
             IF groups[k].Item = r.Item
             THEN [Item |-> r.Item, total |-> groups[k].total + r.Cost]
             ELSE groups[k]]
    ELSE LET before(g) == TextLess(g.Item, r.Item)
             after(g) == ~ TextLess(g.Item, r.Item)
         IN  SelectSeq(groups, before)
                \o <<[Item |-> r.Item, total |-> r.Cost]>>
                \o SelectSeq(groups, after)

RECURSIVE groupby_item_sum(_)
\* df.groupby('Item')['Cost'].sum()
groupby_item_sum(df) ==
    IF df = <<>> THEN <<>>
    ELSE group_insert(groupby_item_sum(SubSeq(df, 1, Len(df) - 1)), df[Len(df)])

RECURSIVE insert_desc(_, _)
\* s is in descending order of total; g came after every element of s.
insert_desc(s, g) ==
    IF s = <<>> THEN <<g>>
    ELSE IF s[Len(s)].total >= g.total THEN Append(s, g)
         ELSE Append(insert_desc(SubSeq(s, 1, Len(s) - 1), g), s[Len(s)])

RECURSIVE sort_values_desc(_)
\* sort_values(ascending=False), equal totals kept in their order.
sort_values_desc(s) ==
    IF s = <<>> THEN <<>>
    ELSE insert_desc(sort_values_desc(SubSeq(s, 1, Len(s) - 1)), s[Len(s)])

\* Series.head(n)
head(s, n) == SubSeq(s, 1, IF n < Len(s) THEN n ELSE Len(s))

\* top_items_bar_chart(df, top_n=10, title): group by item, sum costs, sort
\* descending, take top N.
top_items_bar_chart(df, top_n) ==
    head(sort_values_desc(groupby_item_sum(df)), top_n)

\* The category names, in ascending order: the order of the group keys.
category_order ==
    <<"Books & Literature", "Clothing & Apparel", "Collectibles",
      "Digital Subscriptions", "Electronics & Accessories",
      "Food & Beverages", "Gaming", "Health & Personal Care",
      "Miscellaneous", "Movies & Media", "Music & Audio">>

category_rank(c) ==
    CHOOSE k \in 1..Len(category_order) : category_order[k] = c

\* The row is added to the group of its category; the groups are kept in
\* ascending order of the category.
category_insert(groups, r) ==
    IF \E k \in 1..Len(groups) : groups[k].Category = r.Category
    THEN [k \in 1..Len(groups) |->
             IF groups[k].Category = r.Category
             THEN [Category |-> r.Category, total |-> groups[k].total + r.Cost]
             ELSE groups[k]]
    ELSE LET before(g) == category_rank(g.Category) < category_rank(r.Category)
             after(g) == category_rank(g.Category) > category_rank(r.Category)
         IN  SelectSeq(groups, before)
                \o <<[Category |-> r.Category, total |-> r.Cost]>>
                \o SelectSeq(groups, after)

RECURSIVE groupby_category_sum(_)
\* df.groupby('Category')['Cost'].sum()
groupby_category_sum(df) ==
    IF df = <<>> THEN <<>>
    ELSE category_insert(groupby_category_sum(SubSeq(df, 1, Len(df) - 1)),
                         df[Len(df)])

RECURSIVE sum_total(_)
\* The sum of the totals of groups.
sum_total(s) == IF s = <<>> THEN 0 ELSE Head(s).total + sum_total(Tail(s))

\* The option of category_pie_chart to aggregate small categories is taken.
aggregate_other == TRUE

\* The categories after the top N are left out.
drop_small_categories(s, top_n) == head(s, top_n)

\* Aggregate small categories into "Other": the categories after the top N
\* become one slice with the sum of their totals.
aggregate_small_categories(s, top_n) ==
    IF Len(s) > top_n
    THEN Append(head(s, top_n),
                [Category |-> "Other",
                 total |-> sum_total(SubSeq(s, top_n + 1, Len(s)))])
    ELSE s

\* category_pie_chart(df, top_n=10, title): group by category, sum costs,
\* the top N categories and "Other".
category_pie_chart(df, top_n) ==
    LET s == sort_values_desc(groupby_category_sum(df))
    IN  IF aggregate_other THEN aggregate_small_categories(s, top_n)
        ELSE head(s, top_n)

---------------------------------------------------------------------------
(* The KPI cards of _update_metrics(df), as far as their values. A value   *)
(* that need not be whole is a fraction [num, den]; NaN is 0/0.            *)

\* df['Cost']
costs_of(df) == [i \in 1..Len(df) |-> df[i].Cost]

\* The totals of the bins of a resampled series.
totals_of(x) == [i \in 1..Len(x) |-> x[i].total]

RECURSIVE sum_values(_)
\* Series.sum()
sum_values(x) == IF x = <<>> THEN 0 ELSE Head(x) + sum_values(Tail(x))

RECURSIVE sum_squares(_)
sum_squares(x) ==
    IF x = <<>> THEN 0 ELSE Head(x) * Head(x) + sum_squares(Tail(x))

\* Series.mean(): NaN for a series without values.
mean(x) == IF x = <<>> THEN NaN ELSE [num |-> sum_values(x), den |-> Len(x)]

\* Series.std(), the sample standard deviation (ddof=1), as its square:
\* (n * sum of squares - square of sum) / (n * (n - 1)); NaN for a series
\* of fewer than two values.
std(x) ==
    IF Len(x) < 2 THEN NaN
    ELSE [num |-> Len(x) * sum_squares(x) - sum_values(x) * sum_values(x),
          den |-> Len(x) * (Len(x) - 1)]

RECURSIVE insert_asc(_, _)
insert_asc(s, v) ==
    IF s = <<>> THEN <<v>>
    ELSE IF s[Len(s)] <= v THEN Append(s, v)
         ELSE Append(insert_asc(SubSeq(s, 1, Len(s) - 1), v), s[Len(s)])

RECURSIVE sort_values(_)
\* Series.sort_values()
sort_values(x) ==
    IF x = <<>> THEN <<>>
    ELSE insert_asc(sort_values(SubSeq(x, 1, Len(x) - 1)), x[Len(x)])

\* Series.quantile(k/4), linear interpolation between the order statistics
\* around position (k/4) * (n - 1).
quantile(x, k) ==
    IF x = <<>> THEN NaN
    ELSE LET s == sort_values(x)
             i == (k * (Len(s) - 1)) \div 4 + 1
             frac == (k * (Len(s) - 1)) % 4
             above == IF i < Len(s) THEN s[i + 1] ELSE s[i]
         IN  [num |-> 4 * s[i] + frac * (above - s[i]), den |-> 4]

\* The week of a day, Monday to Sunday: day 0, 2024-12-30, is a Monday.
week_index(day) == day \div 7

\* df.set_index('Date')['Cost'].resample(...) by week, month or year.
resample_by(df, unit) ==
    resample_sum([i \in 1..Len(df) |->
        [period |-> IF unit = "week" THEN week_index(df[i].Date)
                    ELSE IF unit = "month" THEN month_index(df[i].Date)
                    ELSE DateOfDay(df[i].Date).year,
         cost |-> df[i].Cost]])

\* The values of the cards of a DataFrame without rows.
no_data_cards ==
    LET zero == [num |-> 0, den |-> 1]
    IN  [total |-> 0, count |-> 0, average |-> zero, q25 |-> zero,
         median |-> zero, q75 |-> zero, std |-> zero, weekly |-> zero,
         monthly |-> zero, yearly |-> zero, volatility |-> zero]

\* A check that takes no DataFrame for empty.
empty_never(df) == FALSE

\* Check for None/empty DataFrames before processing.
empty(df) == df = <<>>

\* The statistics of the cards.
statistics(df) ==
    [total |-> sum_values(costs_of(df)),
     count |-> Len(df),
     average |-> mean(costs_of(df)),
     q25 |-> quantile(costs_of(df), 1),
     median |-> quantile(costs_of(df), 2),
     q75 |-> quantile(costs_of(df), 3),
     std |-> std(costs_of(df)),
     weekly |-> mean(totals_of(resample_by(df, "week"))),
     monthly |-> mean(totals_of(resample_by(df, "month"))),
     yearly |-> mean(totals_of(resample_by(df, "year"))),
     volatility |-> std(totals_of(resample_by(df, "month")))]

\* _update_metrics(df)
_update_metrics(df) == IF empty(df) THEN no_data_cards ELSE statistics(df)

\* pd.qcut(costs, 4): the quartile bin of a cost, Q1 to Q4; a bin holds
\* the costs above the edge before it, up to its own edge.
qcut(x, c) ==
    IF 4 * c <= quantile(x, 1).num THEN 1
    ELSE IF 4 * c <= quantile(x, 2).num THEN 2
    ELSE IF 4 * c <= quantile(x, 3).num THEN 3 ELSE 4

\* amount_distribution_pie(df, title): the total spend and the number of
\* transactions of each quartile bin.
amount_distribution_pie(df) ==
    IF empty(df) THEN <<>>
    ELSE [q \in 1..4 |->
             LET in_bin(r) == qcut(costs_of(df), r.Cost) = q
             IN  [bin |-> q, total |-> sum_cost(SelectSeq(df, in_bin)),
                  count |-> Len(SelectSeq(df, in_bin))]]

---------------------------------------------------------------------------
(* The dashboard page: set_data, _compute_and_update and the handlers that *)
(* call it.                                                                *)

\* top_items_bar_chart(df, top_n=10, title)
default_top_n == 10

Charts == {"Monthly spending trend", "Rolling average", "Cumulative spending"}

\* _render_monthly_overview: the chart the selector names.
overview_chart(sel, df_sel) ==
    IF sel = "Rolling average" THEN rolling_average_figure(df_sel)
    ELSE IF sel = "Cumulative spending" THEN cumulative_spending_figure(df_sel)
    ELSE monthly_trend_figure(df_sel)

\* The top items chart: the top_n it was made with and its bars.
top_items_chart(df, top_n) ==
    [top_n |-> top_n, bars |-> top_items_bar_chart(df, top_n)]

\* The category pie chart: the top_n it was made with and its slices.
category_chart(df, top_n) ==
    [top_n |-> top_n, slices |-> category_pie_chart(df, top_n)]

\* The canvases _render_monthly_overview creates, in the order it adds them
\* to the layout.
OverviewCanvases == <<"monthly_view", "category_pie", "amount_pie", "top_items">>

\* The canvases are left in the layout and none is deleted.
clear_no_canvases(canvases) == [layout |-> canvases, deleted |-> <<>>]

\* _clear_overall_canvases(): removes all matplotlib canvases from the
\* layout and deletes them (deleteLater()).
_clear_overall_canvases(canvases) == [layout |-> <<>>, deleted |-> canvases]

\* _render_monthly_overview(df_sel): clear the existing canvases, create
\* the chart the selector names, the two pies and the top items chart.
_render_monthly_overview(sel, df_sel) ==
    LET cleared == _clear_overall_canvases(layout)
    IN  /\ deleted' = cleared.deleted
        /\ layout' = cleared.layout \o OverviewCanvases
        /\ _monthly_view' = overview_chart(sel, df_sel)
        /\ category_pie' = category_chart(df_sel, default_top_n)
        /\ amount_pie' = amount_distribution_pie(df_sel)
        /\ top_items_view' = top_items_chart(df_sel, default_top_n)

\* A filter that drops the rows from the DataFrame it is applied to.
frame_filtered_in_place(df, df_sel) == df_sel

\* The DataFrame the filters were applied to, after df_sel was taken from
\* it: df[mask] is a new DataFrame and df is as it was.
frame_after_filter(df, df_sel) == df

\* _compute_and_update(year_text): apply the year filter and the search
\* filter (the text of the search box), keep df_sel as _data, update the
\* cards and render the overview with it.
_compute_and_update(year_text, search_text) ==
    LET df_sel == filtered(_data_raw, year_text, search_text)
    IN  /\ _data_raw' = frame_after_filter(_data_raw, df_sel)
        /\ _data' = df_sel
        /\ search_read' = search_text
        /\ _cards' = _update_metrics(df_sel)
        /\ _render_monthly_overview(overview_chart_combo, df_sel)

\* year_combo.currentTextChanged: every slot connected to the signal is
\* called, each runs _on_year_changed(text) -> _compute_and_update(text).
_on_year_changed(text) ==
    /\ text /= year_combo
    /\ year_combo' = text
    /\ IF connections = 0
       THEN UNCHANGED <<_data_raw, _data, search_read, _cards, deleted, layout,
                        _monthly_view, category_pie, amount_pie,
                        top_items_view, updates>>
       ELSE /\ _compute_and_update(text, search_input)
            /\ updates' = connections
    /\ UNCHANGED <<search_input, overview_chart_combo, loaded, connections,
                   set_data_calls, rw_vars, ld_vars>>

\* The user enters text in the search box.
type_search(text) ==
    /\ text /= search_input
    /\ search_input' = text
    /\ UNCHANGED <<_data_raw, _data, year_combo, overview_chart_combo,
                   _monthly_view, top_items_view, loaded, _cards,
                   category_pie, amount_pie, layout, deleted, connections,
                   updates, search_read, set_data_calls, rw_vars, ld_vars>>

\* The user enters text and clicks Search:
\* _compute_and_update(year_combo.currentText()).
search_clicked(text) ==
    /\ search_input' = text
    /\ _compute_and_update(year_combo, text)
    /\ updates' = 1
    /\ UNCHANGED <<year_combo, overview_chart_combo, loaded, connections,
                   set_data_calls, rw_vars, ld_vars>>

\* The DataFrame of a handler that renders the raw data.
render_source_raw(data, raw) == raw

\* df_sel = getattr(self, '_data', self._data_raw): _data, set by
\* _compute_and_update.
render_source(data, raw) == data

\* The chart selector changes: the overview is rendered again with _data.
_on_overview_chart_changed(sel) ==
    /\ sel /= overview_chart_combo
    /\ overview_chart_combo' = sel
    /\ _render_monthly_overview(sel, render_source(_data, _data_raw))
    /\ UNCHANGED <<_data_raw, _data, year_combo, search_input, loaded, _cards,
                   connections, updates, search_read, set_data_calls,
                   rw_vars, ld_vars>>

\* top_items_bar_chart(df, top_n) with the filtered DataFrame and a top_n.
call_top_items_bar_chart(top_n) ==
    /\ top_items_view' = top_items_chart(_data, top_n)
    /\ UNCHANGED <<_data_raw, _data, year_combo, search_input,
                   overview_chart_combo, _monthly_view, loaded, _cards,
                   category_pie, amount_pie, layout, deleted, connections,
                   updates, search_read, set_data_calls, rw_vars, ld_vars>>

\* category_pie_chart(df, top_n) with the filtered DataFrame and a top_n.
call_category_pie_chart(top_n) ==
    /\ category_pie' = category_chart(_data, top_n)
    /\ UNCHANGED <<_data_raw, _data, year_combo, search_input,
                   overview_chart_combo, _monthly_view, top_items_view,
                   loaded, _cards, amount_pie, layout, deleted, connections,
                   updates, search_read, set_data_calls, rw_vars, ld_vars>>

\* The slots that stay connected where none is disconnected.
disconnect_none(n) == n

\* year_combo.currentTextChanged.disconnect(): every slot is disconnected
\* (an exception where none is connected is passed over).
disconnect(n) == 0

\* year_combo.currentTextChanged.connect(self._on_year_changed)
connect(n) == n + 1

\* The rewriter and load_df at rest.
NoRewrite ==
    /\ file = SheetOf(<<>>)
    /\ backups = <<>>
    /\ clock = 0
    /\ st = "idle"
    /\ pc = 1
    /\ err = "none"
    /\ ws = SheetOf(<<>>)
    /\ data_rows = <<>>
    /\ sorted_rows = <<>>
    /\ orig = file
    /\ log = <<>>
    /\ runs = 0
    /\ backup_names = <<>>
    /\ saved = <<>>
    /\ ld_file = LdNone
    /\ ld_result = LdIdle

\* set_data(df) of __init__: store the DataFrame as _data_raw, connect the
\* year selector, select "Last 12 months",
\* _compute_and_update("Last 12 months").
set_data(df) ==
    /\ _data_raw = df
    /\ loaded = df
    /\ year_combo = "Last 12 months"
    /\ search_input = <<>>
    /\ search_read = <<>>
    /\ overview_chart_combo = "Monthly spending trend"
    /\ _data = filtered(df, "Last 12 months", <<>>)
    /\ _cards = _update_metrics(_data)
    /\ _monthly_view = overview_chart("Monthly spending trend", _data)
    /\ category_pie = category_chart(_data, default_top_n)
    /\ amount_pie = amount_distribution_pie(_data)
    /\ top_items_view = top_items_chart(_data, default_top_n)
    /\ layout = OverviewCanvases
    /\ deleted = <<>>
    /\ connections = connect(disconnect(0))
    /\ updates = 1
    /\ set_data_calls = 1

\* set_data() is called again: the same data is loaded and stored, the
\* signal of the year selector is disconnected and connected, the selector
\* is filled with its signals blocked and "Last 12 months" selected,
\* _compute_and_update("Last 12 months").
call_set_data ==
    /\ set_data_calls < MaxSetData
    /\ set_data_calls' = set_data_calls + 1
    /\ connections' = connect(disconnect(connections))
    /\ year_combo' = "Last 12 months"
    /\ _compute_and_update("Last 12 months", search_input)
    /\ updates' = 1
    /\ UNCHANGED <<search_input, overview_chart_combo, loaded, rw_vars, ld_vars>>

\* DataFrames of at most n records, the records drawn from a set.
Frames(records, n) == UNION {[1..k -> records] : k \in 0..n}

\* The records of the filter specification: items of two cases, notes
\* with a blank, dates on both sides of the start of the window.
FilterRecords ==
    {Record(<<"a">>, <<>>, 1, DayOfDate(2025, 1, 31)),
     Record(<<"a">>, <<"b", " ", "a">>, 1, DayOfDate(2025, 1, 31)),
     Record(<<"a">>, <<>>, 1, DayOfDate(2025, 2, 1)),
     Record(<<"A", "b">>, <<>>, 1, DayOfDate(2025, 2, 1)),
     Record(<<"A", "b">>, <<>>, 1, DayOfDate(2026, 1, 15)),
     Record(<<"a">>, <<"b", " ", "a">>, 1, DayOfDate(2026, 1, 15))}

YearTexts == {"Last 12 months", "All", "2025"}
SearchTexts == {<<>>, <<" ">>, <<" ", "B">>, <<"a", "b">>}

FilterInit ==
    /\ NoRewrite
    /\ \E df \in Frames(FilterRecords, MaxRecs) : set_data(df)

FilterNext ==
    \/ \E text \in YearTexts : _on_year_changed(text)
    \/ \E text \in SearchTexts : search_clicked(text)

FilterSpec == FilterInit /\ [][FilterNext]_vars

\* The records of the chart specification: two items, two costs, dates in
\* January, March and April 2025.
ChartRecords ==
    {Record(<<"b">>, <<>>, 2, DayOfDate(2025, 1, 10)),
     Record(<<"a">>, <<>>, 1, DayOfDate(2025, 3, 5)),
     Record(<<"a">>, <<>>, 1, DayOfDate(2025, 4, 1)),
     Record(<<"b">>, <<>>, 2, DayOfDate(2025, 4, 1))}

ChartInit ==
    /\ NoRewrite
    /\ \E df \in Frames(ChartRecords, MaxRecs) : set_data(df)

ChartNext ==
    \/ _on_year_changed("All")
    \/ \E text \in {<<>>, <<"a">>} : search_clicked(text)
    \/ \E sel \in Charts : _on_overview_chart_changed(sel)
    \/ \E top_n \in 1..MaxTopN : call_top_items_bar_chart(top_n)

ChartSpec == ChartInit /\ [][ChartNext]_vars

\* The records of the KPI specification: two items, three categories, two
\* costs, dates in January and February 2025.
KpiRecords ==
    {Purchase(<<"a">>, "Gaming", 2, DayOfDate(2025, 1, 10)),
     Purchase(<<"b">>, "Gaming", 1, DayOfDate(2025, 1, 10)),
     Purchase(<<"b">>, "Food & Beverages", 1, DayOfDate(2025, 1, 10)),
     Purchase(<<"a">>, "Food & Beverages", 2, DayOfDate(2025, 2, 3)),
     Purchase(<<"b">>, "Collectibles", 1, DayOfDate(2025, 2, 3)),
     Purchase(<<"b">>, "Miscellaneous", 2, DayOfDate(2025, 2, 3))}

KpiInit ==
    /\ NoRewrite
    /\ \E df \in Frames(KpiRecords, MaxRecs) : set_data(df)

KpiNext ==
    \/ \E text \in {"All", "2024"} : _on_year_changed(text)
    \/ \E text \in {<<>>, <<"a">>} : search_clicked(text)
    \/ \E top_n \in 1..MaxTopN : call_category_pie_chart(top_n)

KpiSpec == KpiInit /\ [][KpiNext]_vars

\* The records of the page specification: two items, dates in December
\* 2025 and January 2026.
DashRecords ==
    {Purchase(<<"a">>, "Gaming", 1, DayOfDate(2025, 12, 20)),
     Purchase(<<"b">>, "Gaming", 2, DayOfDate(2025, 12, 20)),
     Purchase(<<"a">>, "Food & Beverages", 2, DayOfDate(2026, 1, 5))}

DashInit ==
    /\ NoRewrite
    /\ \E df \in Frames(DashRecords, MaxRecs) : set_data(df)

\* The user changes the year, enters a search text, clicks Search with the
\* text of the search box, changes the chart; set_data is called again.
DashNext ==
    \/ \E text \in {"Last 12 months", "2025"} : _on_year_changed(text)
    \/ \E text \in {<<>>, <<"a">>} : type_search(text)
    \/ search_clicked(search_input)
    \/ \E sel \in Charts : _on_overview_chart_changed(sel)
    \/ call_set_data

DashSpec == DashInit /\ [][DashNext]_vars

---------------------------------------------------------------------------
(* The rewriter's specification. *)

Init ==
    /\ file \in {SheetOf(rows) : rows \in RowSeqs(MaxRows)}
    /\ backups = <<>>
    /\ clock = 0
    /\ st = "idle"
    /\ pc = 1
    /\ err = "none"
    /\ ws = SheetOf(<<>>)
    /\ data_rows = <<>>
    /\ sorted_rows = <<>>
    /\ orig = file
    /\ log = <<>>
    /\ runs = 0
    /\ backup_names = <<>>
    /\ saved = <<>>
    /\ ld_file = LdNone
    /\ ld_result = LdIdle
    /\ NoDashboard

Next ==
    \/ on_remake_clicked
    \/ load_workbook
    \/ backup
    \/ backup_fails
    \/ init_columns
    \/ read_rows
    \/ sort_rows
    \/ clear_rows
    \/ write_rows
    \/ xlsx_create_category_dv
    \/ xlsx_create_category_cf
    \/ xlsx_format_rows
    \/ save
    \/ rewrite_fails
    \/ returned
    \/ Tick

Spec == Init /\ [][Next]_vars

---------------------------------------------------------------------------
(* Properties of the rewriter. *)

Range(s) == {s[i] : i \in 1..Len(s)}

\* A backup file holds the content.
HasBackupOf(content) == \E n \in DOMAIN backups : backups[n] = content

\* The worksheet of the current rewrite differs from what was loaded.
WsModified == "load_workbook" \in Range(log) /\ ws /= orig

\* C1: whenever the file or the worksheet of a rewrite differs from the
\* content the file had when the rewrite started, a backup file holds that
\* content: the backup is complete before the first mutation.
C1_BackupBeforeMutation ==
    (file /= orig \/ WsModified) => HasBackupOf(orig)

\* C1 happens: a running rewrite has changed its worksheet, the file is
\* still the original and the backup holds it.
C1_Witness ==
    st = "running" /\ WsModified /\ file = orig /\ HasBackupOf(orig)

\* C2: when the backup copy fails the rewrite ends with BackupError, no
\* later phase has run, and the file and the worksheet are what they were
\* before the call.
C2_BackupFailureAborts ==
    (err = "BackupError") =>
        /\ st = "backup_error"
        /\ file = orig
        /\ ws = orig
        /\ Range(log) \cap (LaterPhases \cup {"save"}) = {}

\* C2 happens: a rewrite of a file with rows has ended with BackupError.
C2_Witness ==
    st = "backup_error" /\ err = "BackupError" /\ Len(orig.rows) > 0

\* C3: when a phase after the backup fails, the backup holds the
\* pre-rewrite content and the file is not overwritten; the file is written
\* only by a rewrite all of whose earlier phases have run.
C3_LaterFailureKeepsOriginal ==
    /\ (err \in {"ValueError", "RewriteError"}) =>
           /\ st = "failed"
           /\ HasBackupOf(orig)
           /\ file = orig
           /\ "save" \notin Range(log)
    /\ (file /= orig) => LaterPhases \cup {"backup"} \subseteq Range(log)

\* C3 happens: the sort step of a rewrite raised after the worksheet had
\* been changed; the file is the original and the backup holds it.
C3_Witness ==
    /\ st = "failed" /\ err = "ValueError"
    /\ WsModified
    /\ Len(orig.rows) = MaxRows

\* C4: a rewrite that succeeds has run every phase once, in the order
\* backup, column normalization, sort (read, sort, clear, write back),
\* category validation, formatting, save.
C4_PhasesInOrder ==
    (st = "done") =>
        log = <<"load_workbook", "backup", "init_columns", "read_rows",
                "sort_rows", "clear_rows", "write_rows",
                "create_category_dv", "create_category_cf", "format_rows",
                "save">>

\* C4 happens: a second rewrite has succeeded.
C4_Witness == st = "done" /\ runs = MaxRuns /\ Len(saved) = runs

\* Position in rows of the row of the item.
PosOf(rows, item) == CHOOSE i \in 1..Len(rows) : rows[i].Item = item

\* The calendar day a Date cell denotes.
DayOf(cell) == cell.day

Parseable(cell) == cell.kind /= "bad"

SortDone == "sort_rows" \in Range(log)

\* The rows after the sort are in ascending order of their date-times.
SortedAscending(rows) ==
    \A i, j \in 1..Len(rows) :
        (i < j /\ rows[i].Date.kind = "datetime" /\ rows[j].Date.kind = "datetime")
            => ~ DtLess(rows[j].Date, rows[i].Date)

\* C5: after the sort the rows are in ascending date order, and two rows
\* of the same date are in the order they had before the rewrite.
C5_SortAscendingStable ==
    SortDone =>
        /\ SortedAscending(sorted_rows)
        /\ \A i, j \in 1..Len(data_rows) :
              (/\ i < j
               /\ Parseable(data_rows[i].Date)
               /\ Parseable(data_rows[j].Date)
               /\ DayOf(data_rows[i].Date) = DayOf(data_rows[j].Date))
              => PosOf(sorted_rows, data_rows[i].Item)
                    < PosOf(sorted_rows, data_rows[j].Item)

\* What holds of the sort: ascending order, and the order of two rows is
\* kept when their cells parse to the same date-time.
SortStableOnParsedValue ==
    SortDone =>
        /\ SortedAscending(sorted_rows)
        /\ Len(sorted_rows) = Len(data_rows)
        /\ \A i, j \in 1..Len(data_rows) :
              (i < j /\ _parse_date(data_rows[i].Date) = _parse_date(data_rows[j].Date))
              => PosOf(sorted_rows, data_rows[i].Item)
                    < PosOf(sorted_rows, data_rows[j].Item)

HasUnparseable(rows) == \E i \in 1..Len(rows) : ~ Parseable(rows[i].Date)

RECURSIVE Select(_, _)
Select(rows, keep) ==
    IF rows = <<>> THEN <<>>
    ELSE IF Parseable(Head(rows).Date) = keep
         THEN <<Head(rows)>> \o Select(Tail(rows), keep)
         ELSE Select(Tail(rows), keep)

\* C6: a row whose date cannot be parsed does not abort the rewrite and is
\* not dropped: after the sort these rows follow every parseable row, in
\* their original order.
C6_UnparseableRowsMovedToEnd ==
    HasUnparseable(data_rows) =>
        /\ err /= "ValueError"
        /\ SortDone =>
              /\ Len(sorted_rows) = Len(data_rows)
              /\ SubSeq(sorted_rows, Len(Select(data_rows, TRUE)) + 1,
                        Len(sorted_rows)) = Select(data_rows, FALSE)

\* C7: a second rewrite of the output of a first leaves the rows in the
\* same order with the same cell values.
C7_RewriteIdempotent ==
    (Len(saved) >= 2) => saved[2].rows = saved[1].rows

\* What holds of a second rewrite: the rows keep their order.
SecondRewriteKeepsOrder ==
    (Len(saved) >= 2) =>
        [i \in 1..Len(saved[2].rows) |-> saved[2].rows[i].Item]
            = [i \in 1..Len(saved[1].rows) |-> saved[1].rows[i].Item]

\* C8: the backups of two rewrites run in succession have different names,
\* so that the second does not overwrite the backup of the first: two backup
\* files exist afterwards.
C8_BackupNamesDistinct ==
    (Len(saved) >= 2) =>
        /\ backup_names[1] /= backup_names[2]
        /\ Cardinality(DOMAIN backups) >= 2

---------------------------------------------------------------------------
(* Properties of load_df. *)

Called == ld_result.status /= "not_called"

InDf(item) == \E i \in 1..Len(ld_result.df) : ld_result.df[i].Item = item

CostInDf(item) ==
    LET i == CHOOSE k \in 1..Len(ld_result.df) : ld_result.df[k].Item = item
    IN  ld_result.df[i].Cost

Loadable == ld_file.exists /\ ld_file.columns = RequiredColumns

FileRow(r) == ld_file.rows[r.Item]

\* Month, MonthNum and Year of the row agree with its Date.
ConsistentWithDate(r) ==
    LET d == DateOfDay(r.Date.day)
    IN  /\ r.Month = [kind |-> "text", val |-> month_name(d.month)]
        /\ r.MonthNum = [kind |-> "number", val |-> d.month]
        /\ r.Year = [kind |-> "text", val |-> d.year]

\* The cell agrees with the value derived from the Date, as number or text.
Agrees(cell, val) == cell.kind \in {"number", "text"} /\ cell.val = val

---------------------------------------------------------------------------
(* Properties of the filters. *)

\* The latest date of the records.
LatestDate(df) ==
    CHOOSE d \in {df[i].Date : i \in 1..Len(df)} :
        \A i \in 1..Len(df) : df[i].Date <= d

\* The earliest date of the records.
EarliestDate(df) ==
    CHOOSE d \in {df[i].Date : i \in 1..Len(df)} :
        \A i \in 1..Len(df) : d <= df[i].Date

\* Calendar months from the month of day a to the month of day b.
MonthsBetween(a, b) ==
    (DateOfDay(b).year - DateOfDay(a).year) * 12
        + DateOfDay(b).month - DateOfDay(a).month

\* The record's date lies in the 12 calendar months that end with the month
\* of the latest record of df.
InLast12(df, r) == MonthsBetween(r.Date, LatestDate(df)) \in 0..11

\* The period predicate of filter.
InPeriod(df, period, r) ==
    IF period = "All" THEN TRUE
    ELSE IF period = "Last 12 months" THEN InLast12(df, r)
    ELSE r.Year = period

Blank(text) == \A i \in 1..Len(text) : text[i] = " "

\* The text without the blanks around it.
Trimmed(text) ==
    IF Blank(text) THEN <<>>
    ELSE LET first == CHOOSE i \in 1..Len(text) :
                          text[i] /= " " /\ \A j \in 1..(i - 1) : text[j] = " "
             last == CHOOSE i \in 1..Len(text) :
                         text[i] /= " " /\ \A j \in (i + 1)..Len(text) : text[j] = " "
         IN  SubSeq(text, first, last)

\* The same text but for the case of its letters.
SameButCase(a, b) ==
    /\ Len(a) = Len(b)
    /\ \A i \in 1..Len(a) :
          \/ a[i] = b[i]
          \/ {a[i], b[i]} = {"a", "A"}
          \/ {a[i], b[i]} = {"b", "B"}

\* Some part of the text is the searched text but for case.
Occurs(sub, text) ==
    \E i \in 1..(Len(text) + 1) : \E j \in (i - 1)..Len(text) :
        SameButCase(SubSeq(text, i, j), sub)

\* The search predicate of filter.
SearchMatches(search, r) ==
    \/ Blank(search)
    \/ Occurs(Trimmed(search), r.Item)
    \/ Occurs(Trimmed(search), r.Notes)

\* The records of df that the period and the search predicate both hold for.
Matching(df, period, search) ==
    LET both(r) == InPeriod(df, period, r) /\ SearchMatches(search, r)
    IN  SelectSeq(df, both)

HasDate(df, y, m, d) == \E i \in 1..Len(df) : df[i].Date = DayOfDate(y, m, d)

\* C12: with "Last 12 months" selected (and no search text) the filtered
\* DataFrame holds exactly the records dated in the 12 calendar months that
\* end with the month of the latest record, in their order: from the first
\* day of the month 11 months before to the last day of the latest month.
C12_Last12CalendarWindow ==
    (year_combo = "Last 12 months" /\ search_input = <<>> /\ _data_raw /= <<>>) =>
        LET latest == LatestDate(_data_raw)
            in_window(r) == InLast12(_data_raw, r)
        IN  /\ _data = SelectSeq(_data_raw, in_window)
            /\ \A i \in 1..Len(_data_raw) :
                  in_window(_data_raw[i]) <=>
                      /\ _data_raw[i].Date >=
                            DayOfDate(DateOfDay(latest).year - 1,
                                      DateOfDay(latest).month, 1)
                               + DaysInMonth(DateOfDay(latest).year - 1,
                                             DateOfDay(latest).month)
                      /\ DateOfDay(_data_raw[i].Date).year * 12
                            + DateOfDay(_data_raw[i].Date).month
                         <= DateOfDay(latest).year * 12 + DateOfDay(latest).month

\* C12 happens: the latest record is dated 2026-01-15; of a record dated
\* 2025-01-31 and one dated 2025-02-01 the filter kept the second only.
C12_Witness ==
    /\ year_combo = "Last 12 months" /\ search_input = <<>>
    /\ Len(_data_raw) = 3
    /\ HasDate(_data_raw, 2026, 1, 15)
    /\ HasDate(_data_raw, 2025, 1, 31)
    /\ HasDate(_data_raw, 2025, 2, 1)
    /\ Len(_data) = 2
    /\ HasDate(_data, 2025, 2, 1) /\ ~ HasDate(_data, 2025, 1, 31)

\* C13: with "All" selected and an empty search text the filtered
\* DataFrame is the DataFrame: the same records in the same order.
C13_AllIsIdentity ==
    (year_combo = "All" /\ search_input = <<>>) => _data = _data_raw

\* C13 happens: "All" with no search text gave all three records where
\* "Last 12 months" gives fewer.
C13_Witness ==
    /\ year_combo = "All" /\ search_input = <<>>
    /\ Len(_data_raw) = 3
    /\ _data = _data_raw
    /\ Len(Matching(_data_raw, "Last 12 months", <<>>)) < 3

\* C14: for a search text without blanks around it, the filtered DataFrame
\* holds exactly the records that satisfy both the period predicate and the
\* search predicate, in their order; a year matches the records whose Year
\* is that text; a result without records is an empty DataFrame.
C14_FiltersIntersect ==
    (Trimmed(search_input) = search_input) =>
        /\ _data = Matching(_data_raw, year_combo, search_input)
        /\ \A i \in 1..Len(_data_raw) :
              (year_combo \notin {"All", "Last 12 months"}
               /\ SearchMatches(search_input, _data_raw[i]))
                  => ((\E k \in 1..Len(_data) : _data[k] = _data_raw[i])
                         <=> _data_raw[i].Year = year_combo)

\* C14 happens: a year and a search text are set, the result has a record
\* and is smaller than the result of the year alone and of the search alone.
C14_Witness ==
    /\ year_combo = "2025" /\ search_input = <<"a", "b">>
    /\ Len(_data) = 1
    /\ Len(Matching(_data_raw, "2025", <<>>)) = 2
    /\ Len(Matching(_data_raw, "All", <<"a", "b">>)) = 2

---------------------------------------------------------------------------
(* Properties of the chart functions. *)

CostOf(df, test(_)) == sum_cost(SelectSeq(df, test))

\* C17: the monthly trend of a DataFrame with records has one entry for
\* each calendar month from the month of the earliest date to the month of
\* the latest date, in order; the entry of a month is the sum of the costs
\* dated in it, 0 for a month without records.
C17_MonthlyTrendGapFilled ==
    (overview_chart_combo = "Monthly spending trend") =>
        IF _data = <<>> THEN _monthly_view = <<>>
        ELSE /\ Len(_monthly_view)
                   = MonthsBetween(EarliestDate(_data), LatestDate(_data)) + 1
             /\ \A k \in 1..Len(_monthly_view) :
                   LET in_month(r) ==
                           MonthsBetween(EarliestDate(_data), r.Date) = k - 1
                   IN  /\ _monthly_view[k].total = CostOf(_data, in_month)
                       /\ _monthly_view[k].period
                             = month_index(EarliestDate(_data)) + k - 1

\* C17 happens: records on 2025-01-10 and 2025-03-05 only give exactly
\* three entries, the one of February 0.
C17_Witness ==
    /\ overview_chart_combo = "Monthly spending trend"
    /\ {_data[i].Date : i \in 1..Len(_data)}
          = {DayOfDate(2025, 1, 10), DayOfDate(2025, 3, 5)}
    /\ Len(_monthly_view) = 3
    /\ _monthly_view[1].total > 0
    /\ _monthly_view[2].total = 0
    /\ _monthly_view[3].total > 0

\* C18: entry i of the rolling average is the mean of the entries
\* max(1, i-2)..i of the monthly trend and of no later entry: the first is
\* the trend's first entry, the second the mean of the first two; no entry
\* is NaN.
C18_RollingAverageCausal ==
    (overview_chart_combo = "Rolling average") =>
        LET trend == monthly_trend_figure(_data)
        IN  /\ Len(_monthly_view) = Len(trend)
            /\ \A i \in 1..Len(trend) :
                  LET lo == IF i > 2 THEN i - 2 ELSE 1
                      total(j) == IF j \in lo..i THEN trend[j].total ELSE 0
                  IN  /\ _monthly_view[i].mean /= NaN
                      /\ _monthly_view[i].mean.den = i - lo + 1
                      /\ _monthly_view[i].mean.num
                            = total(i) + total(i - 1) + total(i - 2)
                      /\ _monthly_view[i].period = trend[i].period
            /\ (trend /= <<>>) =>
                  _monthly_view[1].mean = [num |-> trend[1].total, den |-> 1]

\* C18 happens: a trend of four months with spending in the first and in
\* the last; the mean of the second month is half the first month's total
\* and the mean of the fourth is a third of the fourth month's total.
C18_Witness ==
    /\ overview_chart_combo = "Rolling average"
    /\ Len(_monthly_view) = 4
    /\ monthly_trend_figure(_data)[1].total = 2
    /\ monthly_trend_figure(_data)[4].total = 1
    /\ _monthly_view[2].mean = [num |-> 2, den |-> 2]
    /\ _monthly_view[4].mean = [num |-> 1, den |-> 3]

\* C19: the cumulative spending of a DataFrame with records has one entry
\* for every calendar day from the earliest to the latest date, days
\* without spending included; the entry of a day is the sum of the costs
\* dated on or before it, the last entry the total spent.
C19_CumulativeEveryDay ==
    (overview_chart_combo = "Cumulative spending") =>
        IF _data = <<>> THEN _monthly_view = <<>>
        ELSE /\ Len(_monthly_view)
                   = LatestDate(_data) - EarliestDate(_data) + 1
             /\ \A k \in 1..Len(_monthly_view) :
                   LET day == EarliestDate(_data) + k - 1
                       up_to_day(r) == r.Date <= day
                   IN  /\ _monthly_view[k].period = day
                       /\ _monthly_view[k].total = CostOf(_data, up_to_day)
             /\ _monthly_view[Len(_monthly_view)].total = sum_cost(_data)

\* C19 happens: records on 2025-01-10, 2025-03-05 and 2025-04-01 give 82
\* entries; the entry of 2025-03-04, a day without spending, is the cost of
\* the first record.
C19_Witness ==
    /\ overview_chart_combo = "Cumulative spending"
    /\ Len(_data) = 3
    /\ Len(_monthly_view) = 82
    /\ _monthly_view[54].period = DayOfDate(2025, 3, 4)
    /\ _monthly_view[54].total = 2
    /\ _monthly_view[55].total = 3
    /\ _monthly_view[82].total = 5

Items(df) == {df[i].Item : i \in 1..Len(df)}

ItemTotal(df, item) ==
    LET of_item(r) == r.Item = item
    IN  CostOf(df, of_item)

\* An item with this total and name comes before one with that.
RanksBefore(total_a, item_a, total_b, item_b) ==
    total_a > total_b \/ (total_a = total_b /\ TextLess(item_a, item_b))

\* C20: the bars of top_items_bar_chart(df, n) are the n items of largest
\* summed cost (all the items when there are fewer), each with its summed
\* cost, in descending order of total and, for equal totals, in ascending
\* order of the item name; so they do not depend on the order of the
\* records.
C20_TopItemsDeterministic ==
    (top_items_view.top_n > 0) =>
        LET bars == top_items_view.bars
            n == top_items_view.top_n
            shown == {bars[k].Item : k \in 1..Len(bars)}
        IN  /\ Len(bars) = IF Cardinality(Items(_data)) < n
                           THEN Cardinality(Items(_data)) ELSE n
            /\ shown \subseteq Items(_data)
            /\ \A k \in 1..Len(bars) :
                  bars[k].total = ItemTotal(_data, bars[k].Item)
            /\ \A k, l \in 1..Len(bars) :
                  k < l => RanksBefore(bars[k].total, bars[k].Item,
                                       bars[l].total, bars[l].Item)
            /\ \A item \in Items(_data) \ shown : \A k \in 1..Len(bars) :
                  RanksBefore(bars[k].total, bars[k].Item,
                              ItemTotal(_data, item), item)

\* C20 happens: item "b" comes first in the records and item "a" second,
\* both with a total of 2; the top 1 is "a", the top 2 "a" then "b".
C20_Witness ==
    /\ Len(_data) = 3
    /\ _data[1].Item = <<"b">> /\ _data[1].Cost = 2
    /\ _data[2].Item = <<"a">> /\ _data[2].Cost = 1
    /\ _data[3].Item = <<"a">> /\ _data[3].Cost = 1
    /\ top_items_view.top_n = 1
    /\ top_items_view.bars = <<[Item |-> <<"a">>, total |-> 2]>>

---------------------------------------------------------------------------
(* Properties of the category pie chart and of the KPI cards. *)

Categories(df) == {df[i].Category : i \in 1..Len(df)}

\* The sum of the costs of the records of a category.
CategoryTotal(df, c) ==
    LET of_category(r) == r.Category = c
    IN  CostOf(df, of_category)

IsZero(v) == v.num = 0 /\ v.den /= 0

C23_SingleRecordStdZero ==
    /\ Len(_data) = 1 => IsZero(_cards.std) /\ IsZero(_cards.volatility)
    /\ (_data /= <<>> /\ \A i \in 1..Len(_data) : _data[i].Date = _data[1].Date)
           => Len(monthly_trend_figure(_data)) = 1

---------------------------------------------------------------------------
(* Further properties of the rewriter. *)

\* A rewrite is in flight: remake_xlsx_file is running.
InFlight == st = "running"

Validated ==
    st \in {"running", "done"} /\ "create_category_dv" \in Range(log)

\* C25: after the validation phase the dropdown of the Category column
\* allows exactly the names of CATEGORIES, starts at row 2 and ends at
\* twice the last row of the sheet: every data row is in its range and so
\* are rows after the last one; the saved file holds the same dropdown.
C25_CategoryDropdownRange ==
    /\ Validated =>
           /\ ws.dv.values = CATEGORIES
           /\ ws.dv.first = 2
           /\ ws.dv.last = 2 * (1 + Len(ws.rows))
           /\ \A row \in 2..(1 + Len(ws.rows)) :
                  ws.dv.first <= row /\ row <= ws.dv.last
           /\ ws.dv.last > 1 + Len(ws.rows)
    /\ st = "done" => file.dv = ws.dv

\* A sheet of two data rows, last row 3, with the dropdown on rows 2 to 6.
C25_Witness ==
    /\ st = "done"
    /\ Len(file.rows) = 2
    /\ file.dv = [first |-> 2, last |-> 6, values |-> CATEGORIES]

\* The rows after are the rows before in some order, none lost, none
\* twice, each with its cells but for the Date cell, which holds the date
\* of the cell before as a datetime.
RowsPreserved(before, after) ==
    /\ Len(after) = Len(before)
    /\ \A i \in 1..Len(before) :
           /\ Cardinality({j \in 1..Len(after) :
                               after[j].Item = before[i].Item}) = 1
           /\ \A j \in 1..Len(after) :
                  after[j].Item = before[i].Item =>
                      /\ DOMAIN after[j] = DOMAIN before[i]
                      /\ after[j].Date.kind = "datetime"
                      /\ after[j].Date.day = before[i].Date.day

Coloured ==
    st \in {"running", "done"} /\ "create_category_cf" \in Range(log)

---------------------------------------------------------------------------
(* Properties of the dashboard page. *)

\* C27: the cards and every chart of the overview show the same filtered
\* DataFrame, the loaded data filtered by the period the year selector
\* shows and by the search text read at the last run of
\* _compute_and_update, whichever chart the chart selector was changed to
\* since.
C27_ViewsOfOneFilteredSet ==
    LET df == filtered(loaded, year_combo, search_read)
    IN  /\ _data = df
        /\ _cards = _update_metrics(df)
        /\ _monthly_view = overview_chart(overview_chart_combo, df)
        /\ category_pie = category_chart(df, default_top_n)
        /\ amount_pie = amount_distribution_pie(df)
        /\ top_items_view = top_items_chart(df, default_top_n)

\* The chart selector was changed to the rolling average with a filtered
\* DataFrame that is not the raw data, and a text in the search box that
\* no run of _compute_and_update has read.
C27_Witness ==
    /\ overview_chart_combo = "Rolling average"
    /\ year_combo = "2025"
    /\ search_read = <<"a">>
    /\ search_input = <<>>
    /\ Len(_data) = 1
    /\ Len(_data_raw) = 3
    /\ _monthly_view = rolling_average_figure(_data)
    /\ _monthly_view /= rolling_average_figure(_data_raw)

\* C28: the layout of the overview holds at most one canvas for each
\* chart, the canvases of the last render; the canvases a render deleted
\* are the canvases that were in the layout.
C28_OneCanvasPerSlot ==
    /\ \A k, l \in 1..Len(layout) : k /= l => layout[k] /= layout[l]
    /\ layout = OverviewCanvases
    /\ deleted \in {<<>>, OverviewCanvases}

\* The overview was rendered again: the canvases of the render before
\* were deleted and the layout holds the new ones.
C28_Witness ==
    /\ deleted = OverviewCanvases
    /\ layout = OverviewCanvases
    /\ overview_chart_combo = "Cumulative spending"
    /\ year_combo = "2025"

\* C29: however often set_data was called, one slot is connected to the
\* signal of the year selector, and a change of the year runs
\* _compute_and_update once.
C29_OneConnection ==
    /\ connections = 1
    /\ updates = 1

\* set_data was called twice and the user changed the year after that.
C29_Witness ==
    /\ set_data_calls = MaxSetData
    /\ set_data_calls > 1
    /\ year_combo = "2025"
    /\ connections = 1
    /\ updates = 1

====
